---- MODULE Spec2Model ----
(***************************************************************************)
(* Model of src/src/share.rs (crate sharks): the Share value and its two   *)
(* conversions, From<&Share> for Vec<u8> ("encode") and From<&[u8]> for    *)
(* Share ("decode").  Every call is a process that walks through the lines *)
(* of the function body; several calls may be in flight at once.           *)
(***************************************************************************)
EXTENDS Integers, Sequences, FiniteSets, TLC

\* ------------------------------------------------------------------ bounds
\* largest byte value drawn for the single-caller specification (u8 is 0..255)
MaxByte == 5
\* longest y drawn for the single-caller specification
MaxLen == 3
\* number of calls in flight in the concurrent specification
NumCalls == 2

Procs == 1..NumCalls
Byte == 0..MaxByte
\* byte values and lengths drawn for the concurrent specification
ConcByte == {0, 1}

\* all sequences over S of length at most n
RECURSIVE SeqsUpTo(_, _)
SeqsUpTo(S, n) ==
  IF n = 0 THEN {<<>>}
  ELSE LET shorter == SeqsUpTo(S, n - 1)
       IN shorter \cup {Append(q, e) : q \in {r \in shorter : Len(r) = n - 1}, e \in S}

\* ------------------------------------------------------------- data model
\* GF256(b): the one-byte tuple struct wrapping b; raw(e) is its field `.0`
GF256(b) == [byte |-> b]
raw(e) == e.byte

\* struct Share { x: GF256, y: Vec<GF256> }
Share(ex, ey) == [x |-> ex, y |-> ey]

Shares(B, n) == {Share(GF256(b), ey) : b \in B, ey \in SeqsUpTo({GF256(c) : c \in B}, n)}
ByteSeqs(B, n) == SeqsUpTo(B, n)

\* variant: s[len..] taken to be out of bounds
SliceInBoundsStrict(s, k) == k < Len(s)
\* variant: the tail taken one element too far
SliceFromOffByOne(s, k) == SubSeq(s, k + 2, Len(s))

\* the slice s[k..]: defined when k <= len, a panic otherwise
SliceInBounds(s, k) == k <= Len(s)
SliceFrom(s, k) == SubSeq(s, k + 1, Len(s))

VARIABLES
  kind,     \* per call: "encode", "decode", or "idle" (no call)
  input,    \* per call: the argument s (a Share, or a byte sequence)
  pc,       \* per call: the source line about to run, or "done"
  bytes,    \* encode's local `bytes`
  x,        \* decode's local `x`, as <<>> (unset) or <<value>>
  y,        \* decode's local `y` while it is collected
  iter,     \* position of the iterator of extend / collect (0-based)
  outcome,  \* per call: "running", "ok" or "panic"
  ret,      \* per call: <<>> (nothing returned) or <<value>>
  orig,     \* per caller: the first call's kind and argument
  stage,    \* per caller: 1 for the first call, 2 once the result was fed back
  overlap   \* TRUE once a call stepped while another call was in flight

vars == <<kind, input, pc, bytes, x, y, iter, outcome, ret, orig, stage, overlap>>

InFlight(p) == pc[p] \notin {"idle", "done"} /\ outcome[p] = "running"
                 /\ pc[p] \notin {"l33", "l43"}

\* bookkeeping common to every step of call p
Stepped(p) ==
  /\ overlap' = (overlap \/ \E q \in Procs \ {p} : InFlight(q))
  /\ UNCHANGED <<kind, input, orig, stage>>

\* variant: one buffer shared by all calls
LocalBytesShared(p) == bytes[1]

\* the local buffer call p pushes to (line 33: a fresh Vec per call)
LocalBytes(p) == bytes[p]

\* ----------------------------------------------- From<&Share> for Vec<u8>
\* line 33: let mut bytes = Vec::with_capacity(s.y.len() + 1);
WithCapacity(p) ==
  /\ pc[p] = "l33"
  /\ bytes' = [bytes EXCEPT ![p] = <<>>]
  /\ pc' = [pc EXCEPT ![p] = "l34"]
  /\ Stepped(p)
  /\ UNCHANGED <<x, y, iter, outcome, ret>>

\* variant: a length prefix is pushed before x
PushXLengthPrefix(p) ==
  /\ pc[p] = "l34"
  /\ bytes' = [bytes EXCEPT ![p] = Append(Append(LocalBytes(p), Len(input[p].y)), raw(input[p].x))]
  /\ iter' = [iter EXCEPT ![p] = 0]
  /\ pc' = [pc EXCEPT ![p] = "l35"]
  /\ Stepped(p)
  /\ UNCHANGED <<x, y, outcome, ret>>

\* line 34: bytes.push(s.x.0);
PushX(p) ==
  /\ pc[p] = "l34"
  /\ bytes' = [bytes EXCEPT ![p] = Append(LocalBytes(p), raw(input[p].x))]
  /\ iter' = [iter EXCEPT ![p] = 0]
  /\ pc' = [pc EXCEPT ![p] = "l35"]
  /\ Stepped(p)
  /\ UNCHANGED <<x, y, outcome, ret>>

\* variant: y is walked from its end (.iter().rev())
ExtendRev(p) ==
  /\ pc[p] = "l35"
  /\ iter[p] < Len(input[p].y)
  /\ bytes' = [bytes EXCEPT ![p] = Append(LocalBytes(p), raw(input[p].y[Len(input[p].y) - iter[p]]))]
  /\ iter' = [iter EXCEPT ![p] = iter[p] + 1]
  /\ Stepped(p)
  /\ UNCHANGED <<pc, x, y, outcome, ret>>

\* line 35: bytes.extend(s.y.iter().map(|p| p.0)); one element per step
Extend(p) ==
  /\ pc[p] = "l35"
  /\ iter[p] < Len(input[p].y)
  /\ bytes' = [bytes EXCEPT ![p] = Append(LocalBytes(p), raw(input[p].y[iter[p] + 1]))]
  /\ iter' = [iter EXCEPT ![p] = iter[p] + 1]
  /\ Stepped(p)
  /\ UNCHANGED <<pc, x, y, outcome, ret>>

\* variant: an empty y is rejected with a panic
ExtendEndNonEmpty(p) ==
  /\ pc[p] = "l35"
  /\ iter[p] = Len(input[p].y)
  /\ IF Len(input[p].y) = 0
       THEN /\ outcome' = [outcome EXCEPT ![p] = "panic"]
            /\ pc' = [pc EXCEPT ![p] = "done"]
       ELSE /\ pc' = [pc EXCEPT ![p] = "l36"]
            /\ UNCHANGED outcome
  /\ Stepped(p)
  /\ UNCHANGED <<bytes, x, y, iter, ret>>

\* line 35: the iterator is exhausted
ExtendEnd(p) ==
  /\ pc[p] = "l35"
  /\ iter[p] = Len(input[p].y)
  /\ pc' = [pc EXCEPT ![p] = "l36"]
  /\ Stepped(p)
  /\ UNCHANGED <<bytes, x, y, iter, outcome, ret>>

\* line 36: bytes (the return value)
ReturnBytes(p) ==
  /\ pc[p] = "l36"
  /\ ret' = [ret EXCEPT ![p] = <<LocalBytes(p)>>]
  /\ outcome' = [outcome EXCEPT ![p] = "ok"]
  /\ pc' = [pc EXCEPT ![p] = "done"]
  /\ Stepped(p)
  /\ UNCHANGED <<bytes, x, y, iter>>

\* ------------------------------------------------- From<&[u8]> for Share
\* variant: x is defaulted before the index is checked
IndexXDefaulted(p) ==
  /\ pc[p] = "l43"
  /\ IF Len(input[p]) = 0
       THEN /\ outcome' = [outcome EXCEPT ![p] = "panic"]
            /\ pc' = [pc EXCEPT ![p] = "done"]
            /\ x' = [x EXCEPT ![p] = <<GF256(0)>>]
            /\ UNCHANGED iter
       ELSE /\ x' = [x EXCEPT ![p] = <<GF256(input[p][1])>>]
            /\ iter' = [iter EXCEPT ![p] = 0]
            /\ pc' = [pc EXCEPT ![p] = "l44"]
            /\ UNCHANGED outcome
  /\ Stepped(p)
  /\ UNCHANGED <<bytes, y, ret>>

\* line 43: let x = GF256(s[0]);  indexing past the end panics
IndexX(p) ==
  /\ pc[p] = "l43"
  /\ IF Len(input[p]) = 0
       THEN /\ outcome' = [outcome EXCEPT ![p] = "panic"]
            /\ pc' = [pc EXCEPT ![p] = "done"]
            /\ UNCHANGED <<x, iter>>
       ELSE /\ x' = [x EXCEPT ![p] = <<GF256(input[p][1])>>]
            /\ iter' = [iter EXCEPT ![p] = 0]
            /\ pc' = [pc EXCEPT ![p] = "l44"]
            /\ UNCHANGED outcome
  /\ Stepped(p)
  /\ UNCHANGED <<bytes, y, ret>>

\* variant: the elements are read from s instead of s[1..]
CollectUnsliced(p) ==
  /\ pc[p] = "l44"
  /\ IF ~SliceInBounds(input[p], 1)
       THEN /\ outcome' = [outcome EXCEPT ![p] = "panic"]
            /\ pc' = [pc EXCEPT ![p] = "done"]
            /\ UNCHANGED <<y, iter>>
       ELSE /\ iter[p] < Len(SliceFrom(input[p], 1))
            /\ y' = [y EXCEPT ![p] = Append(y[p], GF256(input[p][iter[p] + 1]))]
            /\ iter' = [iter EXCEPT ![p] = iter[p] + 1]
            /\ UNCHANGED <<pc, outcome>>
  /\ Stepped(p)
  /\ UNCHANGED <<bytes, x, ret>>

\* line 44: let y = s[1..].iter().map(|p| GF256(*p)).collect(); one element per step
Collect(p) ==
  /\ pc[p] = "l44"
  /\ IF ~SliceInBounds(input[p], 1)
       THEN /\ outcome' = [outcome EXCEPT ![p] = "panic"]
            /\ pc' = [pc EXCEPT ![p] = "done"]
            /\ UNCHANGED <<y, iter>>
       ELSE /\ iter[p] < Len(SliceFrom(input[p], 1))
            /\ y' = [y EXCEPT ![p] = Append(y[p], GF256(SliceFrom(input[p], 1)[iter[p] + 1]))]
            /\ iter' = [iter EXCEPT ![p] = iter[p] + 1]
            /\ UNCHANGED <<pc, outcome>>
  /\ Stepped(p)
  /\ UNCHANGED <<bytes, x, ret>>

\* line 44: the iterator is exhausted
CollectEnd(p) ==
  /\ pc[p] = "l44"
  /\ SliceInBounds(input[p], 1)
  /\ iter[p] = Len(SliceFrom(input[p], 1))
  /\ pc' = [pc EXCEPT ![p] = "l45"]
  /\ Stepped(p)
  /\ UNCHANGED <<bytes, x, y, iter, outcome, ret>>

\* line 45: Share { x, y }
ReturnShare(p) ==
  /\ pc[p] = "l45"
  /\ ret' = [ret EXCEPT ![p] = <<Share(x[p][1], y[p])>>]
  /\ outcome' = [outcome EXCEPT ![p] = "ok"]
  /\ pc' = [pc EXCEPT ![p] = "done"]
  /\ Stepped(p)
  /\ UNCHANGED <<bytes, x, y, iter>>

\* ------------------------------------------------------------- the caller
\* lines 17 and 22 (usage example): the caller hands the value one conversion
\* returned to the other conversion
Feed(p) ==
  /\ pc[p] = "done"
  /\ outcome[p] = "ok"
  /\ stage[p] = 1
  /\ stage' = [stage EXCEPT ![p] = 2]
  /\ kind' = [kind EXCEPT ![p] = IF kind[p] = "encode" THEN "decode" ELSE "encode"]
  /\ input' = [input EXCEPT ![p] = ret[p][1]]
  /\ pc' = [pc EXCEPT ![p] = IF kind[p] = "encode" THEN "l43" ELSE "l33"]
  /\ outcome' = [outcome EXCEPT ![p] = "running"]
  /\ ret' = [ret EXCEPT ![p] = <<>>]
  /\ bytes' = [bytes EXCEPT ![p] = <<>>]
  /\ x' = [x EXCEPT ![p] = <<>>]
  /\ y' = [y EXCEPT ![p] = <<>>]
  /\ iter' = [iter EXCEPT ![p] = 0]
  /\ UNCHANGED <<orig, overlap>>

\* ------------------------------------------------------ the whole functions
\* Vec::from(&share), run alone from line 33 to line 36
RECURSIVE extend(_, _)
extend(buf, es) == IF es = <<>> THEN buf ELSE extend(Append(buf, raw(Head(es))), Tail(es))
encode(s) == extend(Append(<<>>, raw(s.x)), s.y)

\* Share::from(bytes), run alone from line 43 to line 45; defined when it does not panic
RECURSIVE collect(_, _)
collect(acc, bs) == IF bs = <<>> THEN acc ELSE collect(Append(acc, GF256(Head(bs))), Tail(bs))
decodePanics(s) == Len(s) = 0 \/ ~SliceInBounds(s, 1)
decode(s) == Share(GF256(s[1]), collect(<<>>, SliceFrom(s, 1)))

\* ---------------------------------------------------------- specifications
Start(k, a) ==
  [kind |-> k, input |-> a, pc |-> IF k = "encode" THEN "l33" ELSE IF k = "decode" THEN "l43" ELSE "idle"]

Calls(B, n) ==
  {Start("encode", s) : s \in Shares(B, n)} \cup {Start("decode", b) : b \in ByteSeqs(B, n + 1)}

InitWith(c) ==
  /\ kind = [p \in Procs |-> c[p].kind]
  /\ input = [p \in Procs |-> c[p].input]
  /\ pc = [p \in Procs |-> c[p].pc]
  /\ orig = [p \in Procs |-> [kind |-> c[p].kind, input |-> c[p].input]]
  /\ bytes = [p \in Procs |-> <<>>]
  /\ x = [p \in Procs |-> <<>>]
  /\ y = [p \in Procs |-> <<>>]
  /\ iter = [p \in Procs |-> 0]
  /\ outcome = [p \in Procs |-> "running"]
  /\ ret = [p \in Procs |-> <<>>]
  /\ stage = [p \in Procs |-> 1]
  /\ overlap = FALSE

\* one caller: call 1 is made, the other slots stay idle
Init ==
  \E c1 \in Calls(Byte, MaxLen) :
    InitWith([p \in Procs |-> IF p = 1 THEN c1 ELSE Start("idle", <<>>)])

\* every slot holds a call
InitConc == \E c \in [Procs -> Calls(ConcByte, 1)] : InitWith(c)

Step(p) ==
  \/ WithCapacity(p)
  \/ PushX(p)
  \/ Extend(p)
  \/ ExtendEnd(p)
  \/ ReturnBytes(p)
  \/ IndexX(p)
  \/ Collect(p)
  \/ CollectEnd(p)
  \/ ReturnShare(p)

Next == \E p \in Procs : Step(p) \/ Feed(p)

NextConc == \E p \in Procs : Step(p)

Spec == Init /\ [][Next]_vars

SpecConc == InitConc /\ [][NextConc]_vars

\* ------------------------------------------------------------------ claims
Done(p) == pc[p] = "done"
Distinct(s) == \A i, j \in 1..Len(s) : i # j => s[i] # s[j]

\* C1: a Share that was encoded and whose bytes were then decoded comes back
\* equal: decode succeeds, same x, same y length, same y element at every position.
C1_RoundTrip ==
  \A p \in Procs :
    (orig[p].kind = "encode" /\ stage[p] = 2 /\ Done(p)) =>
      /\ outcome[p] = "ok"
      /\ Len(ret[p]) = 1
      /\ ret[p][1].x = orig[p].input.x
      /\ Len(ret[p][1].y) = Len(orig[p].input.y)
      /\ \A i \in 1..Len(orig[p].input.y) : ret[p][1].y[i] = orig[p].input.y[i]
      /\ ret[p][1] = orig[p].input

C1_Witness ==
  \E p \in Procs :
    /\ orig[p].kind = "encode" /\ stage[p] = 2 /\ Done(p)
    /\ Len(orig[p].input.y) = 3
    /\ Distinct(orig[p].input.y)
    /\ ret[p] = <<orig[p].input>>

\* C2: decode of the empty byte sequence ends with the typed error
\* InvalidShareLength, not with a panic.
C2_EmptyIsTypedError ==
  \A p \in Procs :
    (kind[p] = "decode" /\ Done(p) /\ Len(input[p]) = 0) =>
      outcome[p] = "InvalidShareLength"

\* C3: the bytes encode returns have length len(y) + 1, the raw byte of x at
\* offset 0 and the raw byte of y[i] at offset i + 1, and nothing else.
C3_EncodeLayout ==
  \A p \in Procs :
    (kind[p] = "encode" /\ Done(p)) =>
      /\ Len(ret[p]) = 1
      /\ Len(ret[p][1]) = Len(input[p].y) + 1
      /\ ret[p][1][1] = raw(input[p].x)
      /\ \A i \in 1..Len(input[p].y) : ret[p][1][i + 1] = raw(input[p].y[i])

C3_Witness ==
  \E p \in Procs :
    /\ kind[p] = "encode" /\ Done(p) /\ stage[p] = 1
    /\ input[p] = Share(GF256(1), <<GF256(2), GF256(3)>>)
    /\ ret[p] = << <<1, 2, 3>> >>

\* C4: decode of a byte sequence b of length >= 1 succeeds with x the field
\* element of b[0] and y of length len(b) - 1 with y[i] the field element of b[i+1].
C4_DecodeLayout ==
  \A p \in Procs :
    (kind[p] = "decode" /\ Done(p) /\ Len(input[p]) >= 1) =>
      /\ outcome[p] = "ok"
      /\ Len(ret[p]) = 1
      /\ ret[p][1].x = GF256(input[p][1])
      /\ Len(ret[p][1].y) = Len(input[p]) - 1
      /\ \A i \in 1..(Len(input[p]) - 1) : ret[p][1].y[i] = GF256(input[p][i + 1])

C4_Witness ==
  \E p \in Procs :
    /\ kind[p] = "decode" /\ Done(p) /\ stage[p] = 1
    /\ input[p] = <<1, 2, 3>>
    /\ ret[p] = <<Share(GF256(1), <<GF256(2), GF256(3)>>)>>

\* C5: encode is total: whatever the Share (empty y, x = 0 included) an encode
\* call never panics, can always take its next step until it is done, and is
\* done only with a byte sequence returned.
C5_EncodeTotal ==
  \A p \in Procs :
    kind[p] = "encode" =>
      /\ outcome[p] # "panic"
      /\ ~Done(p) => ENABLED Step(p)
      /\ Done(p) => (outcome[p] = "ok" /\ Len(ret[p]) = 1)

C5_Witness ==
  \E p \in Procs :
    /\ kind[p] = "encode" /\ Done(p) /\ stage[p] = 1
    /\ input[p] = Share(GF256(0), <<>>)
    /\ outcome[p] = "ok"

\* C6: decode ends with InvalidShareLength exactly when its input is empty, and
\* accepts every input of length >= 1 (a first byte of 0 gives x = 0).
C6_FailsIffEmpty ==
  \A p \in Procs :
    (kind[p] = "decode" /\ Done(p)) =>
      /\ outcome[p] = "InvalidShareLength" <=> Len(input[p]) = 0
      /\ Len(input[p]) >= 1 => outcome[p] = "ok"

\* C7: whatever the interleaving of the calls in flight, a call that is done
\* has the outcome and the value the same call has when run alone.
C7_Independence ==
  \A p \in Procs :
    Done(p) =>
      IF kind[p] = "encode"
        THEN outcome[p] = "ok" /\ ret[p] = <<encode(input[p])>>
        ELSE IF decodePanics(input[p])
          THEN outcome[p] = "panic" /\ ret[p] = <<>>
          ELSE outcome[p] = "ok" /\ ret[p] = <<decode(input[p])>>

C7_Witness ==
  /\ overlap
  /\ \A p \in Procs : Done(p)
  /\ \E p, q \in Procs :
       /\ kind[p] = "encode" /\ kind[q] = "encode"
       /\ input[p] # input[q]
       /\ Len(input[p].y) = 1 /\ Len(input[q].y) = 1

\* C8: encode of a Share with empty y returns the one byte [x], and decode of a
\* one-byte sequence [b] succeeds with x = b and an empty y.
C8_ZeroLengthSecret ==
  \A p \in Procs :
    /\ (kind[p] = "encode" /\ Done(p) /\ Len(input[p].y) = 0) =>
         ret[p] = << <<raw(input[p].x)>> >>
    /\ (kind[p] = "decode" /\ Done(p) /\ Len(input[p]) = 1) =>
         (outcome[p] = "ok" /\ ret[p] = <<Share(GF256(input[p][1]), <<>>)>>)

C8_Witness ==
  \E p \in Procs :
    /\ orig[p] = [kind |-> "encode", input |-> Share(GF256(5), <<>>)]
    /\ stage[p] = 2 /\ Done(p)
    /\ input[p] = <<5>>
    /\ ret[p] = <<Share(GF256(5), <<>>)>>

\* C9: no step of a call changes any call's argument; the step in which a
\* decode fails returns nothing, leaves the locals of every call as they were
\* and changes nothing of the other calls.
C9_Step ==
  \A p \in Procs :
    /\ input'[p] = input[p]
    /\ (outcome[p] # "panic" /\ outcome'[p] = "panic") =>
         /\ ret'[p] = <<>>
         /\ <<bytes, x, y, ret>>' = <<bytes, x, y, ret>>
         /\ \A q \in Procs \ {p} : <<pc[q], outcome[q], iter[q]>>' = <<pc[q], outcome[q], iter[q]>>

C9_Frame == [][C9_Step]_vars

C9_Witness ==
  \E p, q \in Procs :
    /\ kind[p] = "decode" /\ Done(p) /\ outcome[p] = "panic" /\ ret[p] = <<>>
    /\ kind[q] = "encode" /\ Done(q) /\ outcome[q] = "ok" /\ input[q] = orig[q].input
    /\ overlap

\* C10: a byte sequence of length >= 1 that was decoded and whose Share was
\* then encoded comes back byte for byte.
C10_ReverseRoundTrip ==
  \A p \in Procs :
    (orig[p].kind = "decode" /\ Len(orig[p].input) >= 1 /\ stage[p] = 2 /\ Done(p)) =>
      /\ outcome[p] = "ok"
      /\ Len(ret[p]) = 1
      /\ Len(ret[p][1]) = Len(orig[p].input)
      /\ \A i \in 1..Len(orig[p].input) : ret[p][1][i] = orig[p].input[i]

C10_Witness ==
  \E p \in Procs :
    /\ orig[p] = [kind |-> "decode", input |-> <<0, 3, 1, 2>>]
    /\ stage[p] = 2 /\ Done(p)
    /\ ret[p] = << <<0, 3, 1, 2>> >>
====
